---- MODULE Spec2Model ----
(***************************************************************************)
(* Model of oura-scraper: the OAuth2 token lifecycle (auth.py), the token  *)
(* store backends, the local callback receiver, the API access layer       *)
(* (api_client.py) and the scrape orchestrator (scraper.py) with the       *)
(* upsert operations of db/operations.py.                                  *)
(*                                                                         *)
(* Conventions.  An optional value (Python `X | None`) is a set with at    *)
(* most one element: {} is None, {x} is x.  Time is counted in seconds.    *)
(* The empty string "" is Python's falsy empty str.                        *)
(***************************************************************************)
EXTENDS Integers, Sequences, FiniteSets, TLC

VARIABLES
    settings,     \* Settings(): access_token / refresh_token of the environment
    backend,      \* which TokenStorageProtocol implementation is in use
    tokenFile,    \* TokenStorage: the file at self.path, {} when it does not exist
    dbRow,        \* DatabaseTokenStorage: row id = 1 of oauth_tokens, {} when absent
    now,          \* datetime.now(UTC), in seconds
    cache,        \* OuraAuth._tokens
    vendor,       \* token endpoint: pairs issued so far, refresh tokens still valid
    posts,        \* POSTs sent to TOKEN_URL: their number, the refresh tokens used up
    faults,       \* environment faults injected so far (bounded)
    held,         \* the pair the backend durably holds: last pair saved and not cleared
    result,       \* the last public call: arguments, outcome, what it did
    handler,      \* OAuthCallbackHandler class attributes
    attempt,      \* authorize_interactive: position, expected_state, listener
    run,          \* scrape_all: position, connection, stats
    pg,           \* the health database: committed rows of the endpoint tables
    sessions      \* two scrape runs at once: each run's OuraAuth and its position

vars == <<settings, backend, tokenFile, dbRow, now, cache, vendor, posts,
          faults, held, result, handler, attempt, run, pg, sessions>>

-----------------------------------------------------------------------------
(* Bounds *)

MaxNow == 2
MaxFaults == 1
MaxIssued == 2
MaxPosts == 3
BatchLen == 2

-----------------------------------------------------------------------------
(* Optional values *)

None == {}

Some(x) == {x}

The(s) == CHOOSE x \in s : TRUE

-----------------------------------------------------------------------------
(* OAuthTokens *)

BUFFER_SECONDS == 300

DEFAULT_EXPIRES_IN == 86400

ENV_VALIDITY == 31536000

SECONDS_PER_DAY == 86400

OAuthTokens(a, r, e, t) ==
    [access_token |-> a, refresh_token |-> r, expires_at |-> e, token_type |-> t]

\* is_expired without the boundary instant
is_expired_strict(tokens, clock) == clock > tokens.expires_at - BUFFER_SECONDS

is_expired(tokens, clock) == clock >= tokens.expires_at - BUFFER_SECONDS

\* isoformat written with the calendar date only
isoformat_date_only(e) == [date |-> e \div SECONDS_PER_DAY, time |-> 0]

\* datetime.isoformat(): the text form, a calendar part and a time-of-day part
isoformat(e) == [date |-> e \div SECONDS_PER_DAY, time |-> e % SECONDS_PER_DAY]

\* datetime.fromisoformat(): {} stands for ValueError on text that is no timestamp
fromisoformat(s) ==
    IF s.time \in 0..(SECONDS_PER_DAY - 1)
    THEN Some(s.date * SECONDS_PER_DAY + s.time)
    ELSE None

\* to_dict leaving token_type out
to_dict_without_token_type(tokens) ==
    [access_token |-> tokens.access_token,
     refresh_token |-> tokens.refresh_token,
     expires_at |-> isoformat(tokens.expires_at)]

to_dict(tokens) ==
    [access_token |-> tokens.access_token,
     refresh_token |-> tokens.refresh_token,
     expires_at |-> isoformat(tokens.expires_at),
     token_type |-> tokens.token_type]

\* Outcome of a call: raised = "none" and a value, or the exception's type
Returned(v) == [raised |-> "none", value |-> v]

Raised(exc) == [raised |-> exc, value |-> None]

\* from_dict on the value json.loads produced
from_dict(data) ==
    IF data.kind # "object" THEN Raised("TypeError")
    ELSE IF ~ ({"access_token", "refresh_token", "expires_at"} \subseteq DOMAIN data.obj)
         THEN Raised("KeyError")
    ELSE IF fromisoformat(data.obj.expires_at) = None THEN Raised("ValueError")
    ELSE Returned(Some(OAuthTokens(
             data.obj.access_token,
             data.obj.refresh_token,
             The(fromisoformat(data.obj.expires_at)),
             IF "token_type" \in DOMAIN data.obj THEN data.obj.token_type ELSE "bearer")))

\* from_token_response on the JSON body of a 2xx token response
from_token_response(response, clock) ==
    LET expires_in == IF "expires_in" \in DOMAIN response
                      THEN response.expires_in ELSE DEFAULT_EXPIRES_IN
    IN  OAuthTokens(response.access_token, response.refresh_token,
                    clock + expires_in,
                    IF "token_type" \in DOMAIN response
                    THEN response.token_type ELSE "bearer")

-----------------------------------------------------------------------------
(* Token store backends *)

\* json.dumps(tokens.to_dict()) as json.loads will read it back
JsonObject(d) == [kind |-> "object", obj |-> d]

\* file contents that are not a saved pair
CorruptContents ==
    { [kind |-> "invalid_json", obj |-> [raw |-> "{"]],
      [kind |-> "array", obj |-> [raw |-> "[]"]],
      JsonObject([access_token |-> "A0"]),
      JsonObject([access_token |-> "A0", refresh_token |-> "R0",
                  expires_at |-> [date |-> 0, time |-> SECONDS_PER_DAY]]) }

EnvTokens(s) == s.access_token # "" /\ s.refresh_token # ""

\* the environment pair taken as expiring at once
EnvPair_expiring_now(s, clock) ==
    OAuthTokens(s.access_token, s.refresh_token, clock, "bearer")

EnvPair(s, clock) ==
    OAuthTokens(s.access_token, s.refresh_token, clock + ENV_VALIDITY, "bearer")

\* The part of the state the token operations read and write.  An operation is
\* an operator from a world to the set of its possible outcomes, one per
\* behaviour of the environment (file system, database, vendor).
\* `trace` lists what the running call has done so far: the values load() gave,
\* the pairs given to save(), the requests posted and their status.
World ==
    [tokenFile |-> tokenFile, dbRow |-> dbRow, held |-> held, cache |-> cache,
     vendor |-> vendor, posts |-> posts, faults |-> faults, trace |-> <<>>]

Outcome(w, raised, value) == [w |-> w, raised |-> raised, value |-> value]

\* an outcome in which the environment failed once more
Fault(w) == [w EXCEPT !.faults = @ + 1]

Allowed(outcomes) == { o \in outcomes : o.w.faults <= MaxFaults }

\* TokenStorage.save: mkdir, write_text, chmod(0o600); an OSError may end it
\* before the write or between the write and the chmod
TokenStorage_save(w, tokens) ==
    LET written == JsonObject(to_dict(tokens))
        oldMode == IF w.tokenFile = None THEN "0644" ELSE The(w.tokenFile).mode
    IN  Allowed({
          Outcome([w EXCEPT !.tokenFile = Some([content |-> written, mode |-> "0600"]),
                            !.held = Some(tokens)], "none", None),
          Outcome(Fault(w), "OSError", None),
          Outcome([Fault(w) EXCEPT
                      !.tokenFile = Some([content |-> written, mode |-> oldMode]),
                      !.held = Some(tokens)], "OSError", None) })

\* TokenStorage.load
TokenStorage_load(w) ==
    IF EnvTokens(settings) THEN {Outcome(w, "none", Some(EnvPair(settings, now)))}
    ELSE IF w.tokenFile = None THEN {Outcome(w, "none", None)}
    ELSE IF The(w.tokenFile).content.kind = "invalid_json" THEN {Outcome(w, "none", None)}
    ELSE LET r == from_dict(The(w.tokenFile).content)
         IN  IF r.raised = "KeyError" THEN {Outcome(w, "none", None)}
             ELSE {Outcome(w, r.raised, r.value)}

\* TokenStorage.clear
TokenStorage_clear(w) ==
    {Outcome([w EXCEPT !.tokenFile = None, !.held = None], "none", None)}

\* DatabaseTokenStorage.save: upsert of the row id = 1, or psycopg.Error
DatabaseTokenStorage_save(w, tokens) ==
    Allowed({
      Outcome([w EXCEPT !.dbRow = Some(<<tokens.access_token, tokens.refresh_token,
                                         tokens.expires_at, tokens.token_type>>),
                        !.held = Some(tokens)], "none", None),
      Outcome(Fault(w), "psycopg.Error", None) })

\* DatabaseTokenStorage.load letting a psycopg.Error out
DatabaseTokenStorage_load_raising(w) ==
    IF EnvTokens(settings) THEN {Outcome(w, "none", Some(EnvPair(settings, now)))}
    ELSE Allowed({
      IF w.dbRow = None THEN Outcome(w, "none", None)
      ELSE LET row == The(w.dbRow)
           IN  Outcome(w, "none",
                       Some(OAuthTokens(row[1], row[2], row[3],
                                        IF row[4] # "" THEN row[4] ELSE "bearer"))),
      Outcome(Fault(w), "psycopg.Error", None) })

\* DatabaseTokenStorage.load: a psycopg.Error is logged and answered with None
DatabaseTokenStorage_load(w) ==
    IF EnvTokens(settings) THEN {Outcome(w, "none", Some(EnvPair(settings, now)))}
    ELSE Allowed({
      IF w.dbRow = None THEN Outcome(w, "none", None)
      ELSE LET row == The(w.dbRow)
           IN  Outcome(w, "none",
                       Some(OAuthTokens(row[1], row[2], row[3],
                                        IF row[4] # "" THEN row[4] ELSE "bearer"))),
      Outcome(Fault(w), "none", None) })

\* DatabaseTokenStorage.clear
DatabaseTokenStorage_clear(w) ==
    Allowed({
      Outcome([w EXCEPT !.dbRow = None, !.held = None], "none", None),
      Outcome(Fault(w), "psycopg.Error", None) })

\* TokenStorageProtocol: the backend chosen at construction
Logged(o, event) == [o EXCEPT !.w.trace = Append(@, event)]

save(w, tokens) ==
    { Logged(o, [ev |-> "save", tokens |-> tokens, raised |-> o.raised])
      : o \in IF backend = "file" THEN TokenStorage_save(w, tokens)
               ELSE DatabaseTokenStorage_save(w, tokens) }

load(w) ==
    { Logged(o, [ev |-> "load", value |-> o.value, raised |-> o.raised])
      : o \in IF backend = "file" THEN TokenStorage_load(w)
               ELSE DatabaseTokenStorage_load(w) }

clear(w) ==
    IF backend = "file" THEN TokenStorage_clear(w) ELSE DatabaseTokenStorage_clear(w)

-----------------------------------------------------------------------------
(* The vendor's token endpoint (TOKEN_URL), as the session manager sees it *)

\* the k-th pair the vendor issues
ACCESS == <<"A1", "A2", "A3", "A4", "A5", "A6">>

REFRESH == <<"R1", "R2", "R3", "R4", "R5", "R6">>

\* <<"expires_in", "token_type">> of a token response; {} when the key is missing
ResponseShapes ==
    { <<None, None>>,
      <<Some(BUFFER_SECONDS), Some("Bearer")>>,
      <<Some(BUFFER_SECONDS + 1), Some("")>> }

ResponseBody(k, ein, tt) ==
    LET base == [access_token |-> ACCESS[k], refresh_token |-> REFRESH[k]]
    IN  CASE ein = None /\ tt = None -> base
          [] ein # None /\ tt = None -> [access_token |-> ACCESS[k],
                                         refresh_token |-> REFRESH[k],
                                         expires_in |-> The(ein)]
          [] ein = None /\ tt # None -> [access_token |-> ACCESS[k],
                                         refresh_token |-> REFRESH[k],
                                         token_type |-> The(tt)]
          [] OTHER -> [access_token |-> ACCESS[k], refresh_token |-> REFRESH[k],
                       expires_in |-> The(ein), token_type |-> The(tt)]

\* one POST to TOKEN_URL: the request is counted and traced, the vendor answers.
\* A refresh token or authorization code is accepted once; a 503 is a fault.
Post(w, grant, credential) ==
    LET sent(status) ==
            [w EXCEPT !.posts.count = @ + 1,
                      !.trace = Append(@, [ev |-> "post", grant |-> grant,
                                           credential |-> credential,
                                           status |-> status])]
        good == IF grant = "refresh_token" THEN credential \in w.vendor.valid
                ELSE credential \in w.vendor.codes
        k == w.vendor.issued + 1
        granted == [sent(200) EXCEPT
                      !.vendor = [issued |-> k,
                                  valid |-> (w.vendor.valid \ {credential})
                                            \cup {REFRESH[k]},
                                  codes |-> w.vendor.codes \ {credential}]]
    IN  IF w.posts.count >= MaxPosts THEN {}
        ELSE IF ~good THEN {[w |-> sent(400), status |-> 400, body |-> None]}
        ELSE Allowed(
               {[w |-> Fault(sent(503)), status |-> 503, body |-> None]}
               \cup (IF k > MaxIssued THEN {}
                     ELSE {[w |-> granted, status |-> 200,
                            body |-> Some(ResponseBody(k, shape[1], shape[2]))]
                           : shape \in ResponseShapes}))

-----------------------------------------------------------------------------
(* OuraAuth *)

\* StoreResponse dropping the cached pair when the vendor refuses
StoreResponse_forgetting(resp, used) ==
    IF resp.status # 200
    THEN {Outcome([resp.w EXCEPT !.cache = None], "HTTPStatusError", None)}
    ELSE LET tokens == from_token_response(The(resp.body), now)
         IN  { IF s.raised # "none" THEN Outcome(s.w, s.raised, None)
               ELSE Outcome([s.w EXCEPT !.cache = Some(tokens),
                                        !.posts.rotated = @ \cup used],
                            "none", Some(tokens))
               : s \in save(resp.w, tokens) }

\* the tail shared by exchange_code and refresh_tokens: raise_for_status,
\* from_token_response, storage.save, self._tokens = tokens, return tokens.
\* `used` is the refresh token the request spent ({} for a code exchange); it is
\* recorded as used up once the call returns.
StoreResponse(resp, used) ==
    IF resp.status # 200 THEN {Outcome(resp.w, "HTTPStatusError", None)}
    ELSE LET tokens == from_token_response(The(resp.body), now)
         IN  { IF s.raised # "none" THEN Outcome(s.w, s.raised, None)
               ELSE Outcome([s.w EXCEPT !.cache = Some(tokens),
                                        !.posts.rotated = @ \cup used],
                            "none", Some(tokens))
               : s \in save(resp.w, tokens) }

exchange_code(w, code) ==
    UNION { StoreResponse(resp, {}) : resp \in Post(w, "authorization_code", code) }

\* the request of refresh_tokens and what follows it
SendRefresh(w, refresh_token) ==
    UNION { StoreResponse(resp, {refresh_token})
            : resp \in Post(w, "refresh_token", refresh_token) }

\* refresh_tokens preferring the stored token to the one it is given
refresh_tokens_stored_first(w, refresh_token) ==
    UNION { IF l.raised # "none" THEN {Outcome(l.w, l.raised, None)}
            ELSE IF l.value = None
                 THEN IF refresh_token = None THEN {Outcome(l.w, "ValueError", None)}
                      ELSE SendRefresh(l.w, The(refresh_token))
            ELSE SendRefresh(l.w, The(l.value).refresh_token)
            : l \in load(w) }

\* refresh_tokens(refresh_token): {} is the default argument None
refresh_tokens(w, refresh_token) ==
    IF refresh_token # None THEN SendRefresh(w, The(refresh_token))
    ELSE UNION { IF l.raised # "none" THEN {Outcome(l.w, l.raised, None)}
                 ELSE IF l.value = None THEN {Outcome(l.w, "ValueError", None)}
                 ELSE SendRefresh(l.w, The(l.value).refresh_token)
                 : l \in load(w) }

\* get_valid_token falling back on the cached pair's refresh token when the
\* store has nothing
get_valid_token_refreshing_cached(w) ==
    IF w.cache # None /\ ~is_expired(The(w.cache), now)
    THEN {Outcome(w, "none", w.cache)}
    ELSE UNION { IF l.raised # "none" THEN {Outcome(l.w, l.raised, None)}
                 ELSE IF l.value = None
                      THEN IF w.cache = None THEN {Outcome(l.w, "ValueError", None)}
                           ELSE refresh_tokens(l.w, Some(The(w.cache).refresh_token))
                 ELSE IF is_expired(The(l.value), now)
                      THEN { IF r.raised # "none" THEN r
                             ELSE Outcome([r.w EXCEPT !.cache = r.value], "none", r.value)
                             : r \in refresh_tokens(l.w, Some(The(l.value).refresh_token)) }
                 ELSE {Outcome([l.w EXCEPT !.cache = l.value], "none", l.value)}
                 : l \in load(w) }

\* get_valid_token sending the refresh a second time when the first is refused
get_valid_token_retrying(w) ==
    IF w.cache # None /\ ~is_expired(The(w.cache), now)
    THEN {Outcome(w, "none", w.cache)}
    ELSE UNION { IF l.raised # "none" THEN {Outcome(l.w, l.raised, None)}
                 ELSE IF l.value = None THEN {Outcome(l.w, "ValueError", None)}
                 ELSE IF is_expired(The(l.value), now)
                      THEN UNION {
                             IF r.raised = "HTTPStatusError"
                             THEN { IF q.raised # "none" THEN q
                                    ELSE Outcome([q.w EXCEPT !.cache = q.value],
                                                 "none", q.value)
                                    : q \in refresh_tokens(r.w,
                                                Some(The(l.value).refresh_token)) }
                             ELSE IF r.raised # "none" THEN {r}
                             ELSE {Outcome([r.w EXCEPT !.cache = r.value], "none", r.value)}
                             : r \in refresh_tokens(l.w, Some(The(l.value).refresh_token)) }
                 ELSE {Outcome([l.w EXCEPT !.cache = l.value], "none", l.value)}
                 : l \in load(w) }

\* get_valid_token: the value is the pair whose access_token is returned
get_valid_token(w) ==
    IF w.cache # None /\ ~is_expired(The(w.cache), now)
    THEN {Outcome(w, "none", w.cache)}
    ELSE UNION { IF l.raised # "none" THEN {Outcome(l.w, l.raised, None)}
                 ELSE IF l.value = None THEN {Outcome(l.w, "ValueError", None)}
                 ELSE IF is_expired(The(l.value), now)
                      THEN { IF r.raised # "none" THEN r
                             ELSE Outcome([r.w EXCEPT !.cache = r.value], "none", r.value)
                             : r \in refresh_tokens(l.w, Some(The(l.value).refresh_token)) }
                 ELSE {Outcome([l.w EXCEPT !.cache = l.value], "none", l.value)}
                 : l \in load(w) }

-----------------------------------------------------------------------------
(* State shared by the specifications *)

SettingsChoices ==
    { [access_token |-> a, refresh_token |-> r] : a \in {"", "EA"}, r \in {"", "ER"} }

CODES == {"code1"}

\* The record of a call: its name and argument, the exception it raised or its
\* value, what it did (trace), whether it changed the durable copy or the cache,
\* whether it posted a refresh token that an earlier refresh had used up, and
\* whether the environment failed during it.
NoResult ==
    [op |-> "none", arg |-> None, raised |-> "none", value |-> None,
     note |-> "", trace |-> <<>>, changed |-> FALSE, reused |-> FALSE,
     faulted |-> FALSE]

\* OAuthCallbackHandler's class attributes as the class statement sets them
HandlerInit == [authorization_code |-> None, state |-> None, error |-> None]

\* authorize_interactive between calls: no listener, no receiver thread.  `stale`
\* says that the receiver thread of an attempt that timed out is still inside
\* handle_request with a request it accepted.  `queries` lists the requests
\* do_GET has handled since the class attributes were last reset, each with the
\* status it was answered with and whether a stale thread handled it.  `checked`
\* is what the three checks after the wait read from the class attributes and
\* `seen` the number of requests handled by then.
AttemptIdle == [pc |-> "idle", expected_state |-> "", thread |-> "none",
                listener |-> "closed", status |-> 0, stale |-> FALSE,
                queries |-> <<>>, checked |-> HandlerInit, seen |-> 0]

\* the connection of a scrape run: psycopg's transaction status and the rows
\* written in the open transaction
ConnIdle == [tx |-> "IDLE", pending |-> {}]

\* OuraScraper before scrape_all: self.stats = {}.  `attempted` lists the
\* endpoints whose _scrape_ method has run, `own` those that failed in their own
\* fetch or store step, `fetched` the rows the vendor returned so far.
RunIdle ==
    [pc |-> "idle", idx |-> 1, conn |-> ConnIdle, stats |-> <<>>,
     attempted |-> <<>>, own |-> {}, fetched |-> {}, empty |-> {}]

\* the scrape runs that may overlap, each a process with its own OuraAuth
SESSIONS == {1, 2}

\* a run before its get_valid_token: self._tokens = None.  `loaded` is the pair
\* storage.load() gave it, `sent` the refresh token it posted and `status` the
\* vendor's answer to that request.
SessionIdle ==
    [pc |-> "idle", cache |-> None, loaded |-> None, sent |-> None, status |-> 0]

\* the state a call leaves behind: the world of outcome o, and the call's record
Apply(o, op, arg, note) ==
    /\ tokenFile' = o.w.tokenFile
    /\ dbRow' = o.w.dbRow
    /\ held' = o.w.held
    /\ cache' = o.w.cache
    /\ vendor' = o.w.vendor
    /\ posts' = o.w.posts
    /\ faults' = o.w.faults
    /\ result' = [op |-> op, arg |-> arg, raised |-> o.raised, value |-> o.value,
                  note |-> note, trace |-> o.w.trace,
                  changed |-> \/ o.w.tokenFile # tokenFile
                              \/ o.w.dbRow # dbRow
                              \/ o.w.cache # cache,
                  reused |-> \E i \in 1..Len(o.w.trace) :
                                 /\ o.w.trace[i].ev = "post"
                                 /\ o.w.trace[i].grant = "refresh_token"
                                 /\ o.w.trace[i].credential \in posts.rotated,
                  faulted |-> o.w.faults > faults]

\* a fresh install: no token file or a damaged one, no row, nothing cached
InitTokens(envs, damaged) ==
    /\ settings \in envs
    /\ backend \in {"file", "database"}
    /\ tokenFile \in IF backend = "file"
                     THEN {None} \cup { Some([content |-> c, mode |-> "0644"])
                                        : c \in damaged }
                     ELSE {None}
    /\ dbRow = None
    /\ held = None
    /\ now = 0
    /\ cache = None
    /\ vendor = [issued |-> 0, valid |-> {"ER"}, codes |-> CODES]
    /\ posts = [count |-> 0, rotated |-> {}]
    /\ faults = 0
    /\ result = NoResult
    /\ sessions = [i \in SESSIONS |-> SessionIdle]

-----------------------------------------------------------------------------
(* Specification Spec: the session manager and its token store *)

Init ==
    /\ InitTokens({ e \in SettingsChoices : e.refresh_token = "" <=> e.access_token = "" },
                  { c \in CorruptContents : c.kind = "object" })
    /\ handler = HandlerInit
    /\ attempt = AttemptIdle
    /\ run = RunIdle
    /\ pg = {}

\* time passes
Tick ==
    /\ now < MaxNow
    /\ now' = now + 1
    /\ result' = NoResult
    /\ UNCHANGED <<sessions, settings, backend, tokenFile, dbRow, cache, vendor, posts,
                   faults, held, handler, attempt, run, pg>>

\* a new process: OuraAuth.__init__ sets self._tokens = None
NewSession ==
    /\ cache # None
    /\ cache' = None
    /\ result' = NoResult
    /\ UNCHANGED <<sessions, settings, backend, tokenFile, dbRow, now, vendor, posts,
                   faults, held, handler, attempt, run, pg>>

CallExchangeCode ==
    \E code \in CODES \cup {"bogus"} :
        \E o \in exchange_code(World, code) :
            /\ Apply(o, "exchange_code", Some(code), "")
            /\ UNCHANGED <<sessions, settings, backend, now, handler, attempt, run, pg>>

\* the refresh tokens a caller can pass: those it has seen, and the empty string
KnownRefreshTokens == {"", "ER"} \cup { REFRESH[k] : k \in 1..vendor.issued }

CallRefreshTokens ==
    \E arg \in {None} \cup { Some(r) : r \in KnownRefreshTokens } :
        \E o \in refresh_tokens(World, arg) :
            /\ Apply(o, "refresh_tokens", arg, "")
            /\ UNCHANGED <<sessions, settings, backend, now, handler, attempt, run, pg>>

CallGetValidToken ==
    \E o \in get_valid_token(World) :
        /\ Apply(o, "get_valid_token", None, "")
        /\ UNCHANGED <<sessions, settings, backend, now, handler, attempt, run, pg>>

CallClear ==
    \E o \in clear(World) :
        /\ held # None
        /\ Apply(o, "clear", None, "")
        /\ UNCHANGED <<sessions, settings, backend, now, handler, attempt, run, pg>>

Next ==
    \/ Tick
    \/ NewSession
    \/ CallExchangeCode
    \/ CallRefreshTokens
    \/ CallGetValidToken
    \/ CallClear

Spec == Init /\ [][Next]_vars

-----------------------------------------------------------------------------
(* Specification SpecInteractive: authorize_interactive and its receiver *)

\* values secrets.token_urlsafe(32) may give
NONCES == {"s1", "s2"}

\* the query of a redirect: parse_qs leaves out a parameter that is missing or blank
CallbackQueries ==
    [error : {None, Some("access_denied")},
     code : {None, Some("code1"), Some("bogus")},
     state : {None} \cup { Some(n) : n \in NONCES }]

\* do_GET looking for the code before the error
do_GET_code_first(h, params) ==
    IF params.code # None
    THEN [h EXCEPT !.authorization_code = params.code, !.state = params.state]
    ELSE IF params.error # None THEN [h EXCEPT !.error = params.error]
    ELSE h

\* OAuthCallbackHandler.do_GET: the class attributes after the request
do_GET(h, params) ==
    IF params.error # None THEN [h EXCEPT !.error = params.error]
    ELSE IF params.code # None
         THEN [h EXCEPT !.authorization_code = params.code, !.state = params.state]
    ELSE h

\* do_GET answering every request with _send_response's default status
do_GET_status_default(params) == 200

\* the status do_GET answers with
do_GET_status(params) ==
    IF params.error # None \/ params.code # None THEN 200 ELSE 400

\* the comparison that guards the exchange, accepting a callback without a state
StateMatches_or_absent(captured, expected) ==
    captured = None \/ captured = Some(expected)

\* OAuthCallbackHandler.state != expected_state, negated
StateMatches(captured, expected) == captured = Some(expected)

InitInteractive ==
    /\ InitTokens({ e \in SettingsChoices : e.refresh_token = "" <=> e.access_token = "" },
                  {})
    /\ handler = HandlerInit
    /\ attempt = AttemptIdle
    /\ run = RunIdle
    /\ pg = {}

\* one request handled by do_GET, as `queries` records it
Handled(params, stale) ==
    [q |-> params, status |-> do_GET_status(params), stale |-> stale]

\* authorize_interactive up to server_thread.join: the state is drawn, the class
\* attributes are reset, the listener is bound and its thread started, the
\* browser is opened.  webbrowser.open may raise; the exception leaves
\* authorize_interactive at once.
AuthorizeStart ==
    /\ attempt.pc = "idle"
    /\ handler' = HandlerInit
    /\ \E expected_state \in NONCES :
         LET started == [attempt EXCEPT !.pc = "waiting",
                                        !.expected_state = expected_state,
                                        !.thread = "serving",
                                        !.listener = "bound",
                                        !.status = 0,
                                        !.queries = <<>>,
                                        !.checked = HandlerInit,
                                        !.seen = 0]
         IN  \/ /\ attempt' = started
                /\ result' = NoResult
                /\ faults' = faults
             \/ /\ faults < MaxFaults
                /\ attempt' = [started EXCEPT !.pc = "raised"]
                /\ faults' = faults + 1
                /\ result' = [NoResult EXCEPT !.op = "authorize_interactive",
                                              !.raised = "webbrowser.Error",
                                              !.note = "browser",
                                              !.faulted = TRUE]
    /\ UNCHANGED <<sessions, settings, backend, tokenFile, dbRow, now, cache, vendor, posts,
                   held, run, pg>>

\* server_thread.join(timeout=300) is interrupted (KeyboardInterrupt): the
\* exception leaves authorize_interactive from line 470
AuthorizeInterrupted ==
    /\ attempt.pc = "waiting"
    /\ faults < MaxFaults
    /\ faults' = faults + 1
    /\ attempt' = [attempt EXCEPT !.pc = "raised"]
    /\ result' = [NoResult EXCEPT !.op = "authorize_interactive",
                                  !.raised = "KeyboardInterrupt",
                                  !.note = "interrupted",
                                  !.faulted = TRUE]
    /\ UNCHANGED <<sessions, settings, backend, tokenFile, dbRow, now, cache, vendor, posts,
                   held, handler, run, pg>>

\* the receiver thread handles the one request handle_request waits for
ReceiveCallback ==
    /\ attempt.thread = "serving"
    /\ \E params \in CallbackQueries :
           /\ handler' = do_GET(handler, params)
           /\ attempt' = [attempt EXCEPT !.thread = "done",
                                         !.status = do_GET_status(params),
                                         !.queries = Append(@, Handled(params, FALSE))]
    /\ result' = NoResult
    /\ UNCHANGED <<sessions, settings, backend, tokenFile, dbRow, now, cache, vendor, posts,
                   faults, held, run, pg>>

\* the thread of an attempt that timed out finishes the request it had accepted
ReceiveStaleCallback ==
    /\ attempt.stale
    /\ \E params \in CallbackQueries :
           /\ handler' = do_GET(handler, params)
           /\ attempt' = [attempt EXCEPT !.stale = FALSE,
                                         !.queries = Append(@, Handled(params, TRUE))]
    /\ result' = NoResult
    /\ UNCHANGED <<sessions, settings, backend, tokenFile, dbRow, now, cache, vendor, posts,
                   faults, held, run, pg>>

\* authorize_interactive from the return of join(timeout=300) to line 480:
\* server_close and the three checks.  join returns with the thread done, or
\* after the timeout with the thread still in handle_request.
AuthorizeFinish ==
    /\ attempt.pc = "waiting"
    /\ handler' = handler
    /\ LET closed == [attempt EXCEPT !.thread = "none",
                                      !.listener = "closed",
                                      !.stale = @ \/ attempt.thread = "serving",
                                      !.checked = handler,
                                      !.seen = Len(attempt.queries)]
           note == IF handler.error # None THEN "denied"
                   ELSE IF handler.authorization_code = None
                        THEN "timed out or failed"
                   ELSE IF ~StateMatches(handler.state, attempt.expected_state)
                        THEN "state mismatch"
                   ELSE "passed"
       IN  IF note = "passed"
           THEN /\ attempt' = [closed EXCEPT !.pc = "exchanging"]
                /\ result' = NoResult
                /\ UNCHANGED <<tokenFile, dbRow, held, cache, vendor, posts, faults>>
           ELSE /\ attempt' = [closed EXCEPT !.pc = "idle"]
                /\ Apply(Outcome(World, "ValueError", None),
                         "authorize_interactive", None, note)
    /\ UNCHANGED <<sessions, settings, backend, now, run, pg>>

\* line 483: exchange_code with the authorization code the class attribute
\* holds when it is read again
AuthorizeExchange ==
    /\ attempt.pc = "exchanging"
    /\ attempt' = [attempt EXCEPT !.pc = "idle"]
    /\ handler' = handler
    /\ \E o \in exchange_code(World, The(handler.authorization_code)) :
           Apply(o, "authorize_interactive", handler.authorization_code, "exchange")
    /\ UNCHANGED <<sessions, settings, backend, now, run, pg>>

NextInteractive ==
    \/ AuthorizeStart
    \/ AuthorizeInterrupted
    \/ ReceiveCallback
    \/ ReceiveStaleCallback
    \/ AuthorizeFinish
    \/ AuthorizeExchange

SpecInteractive == InitInteractive /\ [][NextInteractive]_vars

-----------------------------------------------------------------------------
(* Specification SpecScrape: OuraAPIClient, the upserts and OuraScraper.scrape_all *)

\* the _scrape_ calls of scrape_all, in program order
ENDPOINTS ==
    <<"personal_info", "daily_activity", "daily_sleep", "daily_readiness",
      "daily_stress", "daily_spo2", "sleep", "sleep_time", "heartrate",
      "workout", "session", "enhanced_tag", "rest_mode_period">>

\* the endpoints for which the vendor has no record in the date window
DataProfiles ==
    { {}, {"sleep_time"}, {"daily_activity", "heartrate"},
      { ENDPOINTS[i] : i \in 2..Len(ENDPOINTS) } }

\* the rows of one endpoint's batch, by primary key
Rows(name, n) == { <<name, i>> : i \in 1..n }

\* OuraAPIClient._get_headers: one call of auth.get_valid_token, recorded
_get_headers(w) ==
    { Logged(t, [ev |-> "get_valid_token", raised |-> t.raised, value |-> t.value])
      : t \in get_valid_token(w) }

\* the non-2xx statuses the vendor answers a GET with
GET_REFUSALS == {401, 500}

\* one httpx.get with the bearer token and raise_for_status: the value is the
\* number of records in the body; a non-2xx answer is a fault
http_get(w, name, n, token) ==
    LET sent(status) ==
            [w EXCEPT !.trace = Append(@, [ev |-> "get", endpoint |-> name,
                                           token |-> token, status |-> status])]
    IN  Allowed({Outcome(sent(200), "none", Some(n))}
                \cup { Outcome(Fault(sent(status)), "HTTPStatusError", None)
                       : status \in GET_REFUSALS })

\* an API access method using the session manager's cached pair when there is one
api_get_with_kept_token(w, name, n) ==
    IF w.cache # None THEN http_get(w, name, n, The(w.cache).access_token)
    ELSE UNION { IF t.raised # "none" THEN {t}
                 ELSE http_get(t.w, name, n, The(t.value).access_token)
                 : t \in _get_headers(w) }

\* OuraAPIClient.get_<endpoint>: _get_headers, httpx.get, raise_for_status,
\* response.json()
api_get(w, name, n) ==
    UNION { IF t.raised # "none" THEN {t}
            ELSE http_get(t.w, name, n, The(t.value).access_token)
            : t \in _get_headers(w) }

\* conn.commit(): an open transaction is committed, a failed one rolled back
commit(c, rows) ==
    [conn |-> ConnIdle,
     rows |-> IF c.tx = "INTRANS" THEN rows \cup c.pending ELSE rows]

\* upsert_<endpoint> without the return for an empty batch
upsert_without_empty_return(c, rows, name, n, budget) ==
    IF c.tx = "INERROR"
    THEN {[conn |-> c, rows |-> rows, raised |-> "InFailedSqlTransaction",
           count |-> 0, fault |-> 0]}
    ELSE LET all == [c EXCEPT !.tx = "INTRANS", !.pending = @ \cup Rows(name, n)]
             done == commit(all, rows)
         IN  {[conn |-> done.conn, rows |-> done.rows, raised |-> "none",
               count |-> n, fault |-> 0]}
             \cup (IF budget < 1 THEN {}
                   ELSE { [conn |-> [tx |-> tx,
                                     pending |-> c.pending \cup Rows(name, j - 1)],
                           rows |-> rows,
                           raised |-> IF tx = "INERROR" THEN "DataError"
                                      ELSE "ProgrammingError",
                           count |-> 0, fault |-> 1]
                          : j \in 1..n, tx \in {"INERROR", "INTRANS"} })

\* upsert_<endpoint>(conn, records) for n records: one execute per record, then
\* commit.  An execute may raise: the server rejects the row (the transaction is
\* then failed), a parameter is missing (raised before the statement is sent,
\* the transaction stays open), or the transaction has failed earlier.
\* upsert_personal_info has no empty-batch return.
upsert(c, rows, name, n, budget) ==
    IF name # "personal_info" /\ n = 0
    THEN {[conn |-> c, rows |-> rows, raised |-> "none", count |-> 0, fault |-> 0]}
    ELSE IF c.tx = "INERROR"
    THEN {[conn |-> c, rows |-> rows, raised |-> "InFailedSqlTransaction",
           count |-> 0, fault |-> 0]}
    ELSE LET all == [c EXCEPT !.tx = "INTRANS", !.pending = @ \cup Rows(name, n)]
             done == commit(all, rows)
         IN  {[conn |-> done.conn, rows |-> done.rows, raised |-> "none",
               count |-> n, fault |-> 0]}
             \cup (IF budget < 1 THEN {}
                   ELSE { [conn |-> [tx |-> tx,
                                     pending |-> c.pending \cup Rows(name, j - 1)],
                           rows |-> rows,
                           raised |-> IF tx = "INERROR" THEN "DataError"
                                      ELSE "ProgrammingError",
                           count |-> 0, fault |-> 1]
                          : j \in 1..n, tx \in {"INERROR", "INTRANS"} })

\* the report entry a _scrape_ method writes
StatsEntry(raised, count) ==
    IF raised = "none" THEN [success |-> TRUE, records |-> count]
    ELSE [success |-> FALSE, error |-> raised]

\* stats[name] = entry
SetItem(stats, name, entry) ==
    [k \in DOMAIN stats \cup {name} |-> IF k = name THEN entry ELSE stats[k]]

\* the scraper always uses DatabaseTokenStorage; the row holds nothing, a fresh
\* pair, or a pair that has reached its expiry buffer
InitScrape ==
    /\ settings \in { e \in SettingsChoices : e.refresh_token = "" <=> e.access_token = "" }
    /\ backend = "database"
    /\ tokenFile = None
    /\ held \in {None, Some(OAuthTokens("A0", "R0", DEFAULT_EXPIRES_IN, "bearer")),
                 Some(OAuthTokens("A0", "R0", BUFFER_SECONDS, "bearer"))}
    /\ dbRow = IF held = None THEN None
               ELSE Some(<<The(held).access_token, The(held).refresh_token,
                           The(held).expires_at, The(held).token_type>>)
    /\ now = 0
    /\ cache = None
    /\ vendor = [issued |-> 0, valid |-> {"ER", "R0"}, codes |-> {}]
    /\ posts = [count |-> 0, rotated |-> {}]
    /\ faults = 0
    /\ result = NoResult
    /\ sessions = [i \in SESSIONS |-> SessionIdle]
    /\ handler = HandlerInit
    /\ attempt = AttemptIdle
    /\ run = RunIdle
    /\ pg = {}

\* scrape_all up to the first _scrape_ call: psycopg.connect succeeds, or raises
\* out of scrape_all
ScrapeStart ==
    /\ run.pc = "idle"
    /\ \/ \E empty \in DataProfiles :
              /\ run' = [run EXCEPT !.pc = "running", !.empty = empty]
              /\ faults' = faults
       \/ /\ faults < MaxFaults
          /\ faults' = faults + 1
          /\ run' = [run EXCEPT !.pc = "raised"]
    /\ result' = NoResult
    /\ UNCHANGED <<sessions, settings, backend, tokenFile, dbRow, now, cache, vendor, posts,
                   held, handler, attempt, pg>>

\* one _scrape_<endpoint>(conn): fetch, upsert, stats entry; every Exception is
\* caught and reported
ScrapeEndpoint ==
    /\ run.pc = "running"
    /\ run.idx <= Len(ENDPOINTS)
    /\ LET name == ENDPOINTS[run.idx]
           n == IF name = "personal_info" THEN 1
                ELSE IF name \in run.empty THEN 0 ELSE BatchLen
       IN  \E f \in api_get(World, name, n) :
           \E u \in IF f.raised # "none"
                    THEN {[conn |-> run.conn, rows |-> pg, raised |-> f.raised,
                           count |-> 0, fault |-> 0]}
                    ELSE upsert(run.conn, pg, name, n, MaxFaults - f.w.faults) :
               /\ Apply([f EXCEPT !.w.faults = @ + u.fault, !.raised = u.raised],
                        "_scrape_", Some(name), "")
               /\ pg' = u.rows
               /\ run' = [run EXCEPT
                            !.idx = @ + 1,
                            !.conn = u.conn,
                            !.stats = SetItem(@, name, StatsEntry(u.raised, u.count)),
                            !.attempted = Append(@, name),
                            !.own = IF f.raised # "none" \/ u.fault = 1
                                    THEN @ \cup {name} ELSE @,
                            !.fetched = IF f.raised = "none"
                                        THEN @ \cup Rows(name, n) ELSE @]
    /\ UNCHANGED <<sessions, settings, backend, now, handler, attempt>>

\* the end of the with block (commit, close) and return self.stats
ScrapeFinish ==
    /\ run.pc = "running"
    /\ run.idx > Len(ENDPOINTS)
    /\ pg' = commit(run.conn, pg).rows
    /\ run' = [run EXCEPT !.pc = "returned", !.conn = ConnIdle]
    /\ result' = NoResult
    /\ UNCHANGED <<sessions, settings, backend, tokenFile, dbRow, now, cache, vendor, posts,
                   faults, held, handler, attempt>>

NextScrape ==
    \/ ScrapeStart
    \/ ScrapeEndpoint
    \/ ScrapeFinish

SpecScrape == InitScrape /\ [][NextScrape]_vars

-----------------------------------------------------------------------------
(* Specification SpecUpsert: the upsert statements of db/operations.py *)

MaxUpserts == 2

\* the columns of each INSERT that take their value from the record (updated_at
\* of oura_personal_info is NOW())
INSERT_COLUMNS(name) ==
    CASE name = "personal_info" ->
           {"id", "email", "age", "weight", "height", "biological_sex"}
      [] name = "daily_activity" ->
           {"id", "day", "score", "active_calories", "average_met_minutes",
           "stay_active", "move_every_hour", "meet_daily_targets",
           "training_frequency", "training_volume", "recovery_time",
           "equivalent_walking_distance", "high_activity_met_minutes",
           "high_activity_time", "inactivity_alerts", "low_activity_met_minutes",
           "low_activity_time", "medium_activity_met_minutes",
           "medium_activity_time", "met", "meters_to_target", "non_wear_time",
           "resting_time", "sedentary_met_minutes", "sedentary_time", "steps",
           "target_calories", "target_meters", "total_calories", "class_5_min",
           "timestamp"}
      [] name = "daily_sleep" ->
           {"id", "day", "score", "deep_sleep", "efficiency", "latency",
           "rem_sleep", "restfulness", "timing", "total_sleep", "timestamp"}
      [] name = "daily_readiness" ->
           {"id", "day", "score", "activity_balance", "body_temperature",
           "hrv_balance", "previous_day_activity", "previous_night",
           "recovery_index", "resting_heart_rate", "sleep_balance",
           "sleep_regularity", "temperature_deviation",
           "temperature_trend_deviation", "timestamp"}
      [] name = "daily_stress" ->
           {"id", "day", "stress_high", "recovery_high", "day_summary"}
      [] name = "daily_spo2" ->
           {"id", "day", "spo2_percentage", "breathing_disturbance_index"}
      [] name = "sleep" ->
           {"id", "day", "bedtime_start", "bedtime_end", "average_breath",
           "average_heart_rate", "average_hrv", "awake_time",
           "deep_sleep_duration", "efficiency", "heart_rate", "hrv", "latency",
           "light_sleep_duration", "low_battery_alert", "lowest_heart_rate",
           "movement_30_sec", "period", "readiness", "readiness_score_delta",
           "rem_sleep_duration", "restless_periods", "sleep_phase_5_min",
           "sleep_score_delta", "sleep_algorithm_version", "time_in_bed",
           "total_sleep_duration", "type", "ring_id", "sleep_analysis_reason"}
      [] name = "sleep_time" ->
           {"id", "day", "optimal_bedtime", "recommendation", "status"}
      [] name = "heartrate" ->
           {"timestamp", "bpm", "source"}
      [] name = "workout" ->
           {"id", "day", "activity", "calories", "distance", "start_datetime",
           "end_datetime", "intensity", "label", "source"}
      [] name = "session" ->
           {"id", "day", "start_datetime", "end_datetime", "type", "mood",
           "heart_rate", "hrv", "motion_count"}
      [] name = "enhanced_tag" ->
           {"id", "day", "tag_type_code", "start_time", "end_time", "start_day",
           "end_day", "comment"}
      [] name = "rest_mode_period" ->
           {"id", "start_day", "end_day", "start_time", "end_time", "episodes"}

\* the columns each DO UPDATE SET clause assigns from EXCLUDED
CONFLICT_UPDATES(name) ==
    CASE name = "personal_info" ->
           {"email", "age", "weight", "height", "biological_sex"}
      [] name = "daily_activity" ->
           {"score", "active_calories", "average_met_minutes", "stay_active",
           "move_every_hour", "meet_daily_targets", "training_frequency",
           "training_volume", "recovery_time", "equivalent_walking_distance",
           "high_activity_met_minutes", "high_activity_time",
           "inactivity_alerts", "low_activity_met_minutes", "low_activity_time",
           "medium_activity_met_minutes", "medium_activity_time", "met",
           "meters_to_target", "non_wear_time", "resting_time",
           "sedentary_met_minutes", "sedentary_time", "steps", "target_calories",
           "target_meters", "total_calories", "class_5_min", "timestamp"}
      [] name = "daily_sleep" ->
           {"score", "deep_sleep", "efficiency", "latency", "rem_sleep",
           "restfulness", "timing", "total_sleep", "timestamp"}
      [] name = "daily_readiness" ->
           {"score", "activity_balance", "body_temperature", "hrv_balance",
           "previous_day_activity", "previous_night", "recovery_index",
           "resting_heart_rate", "sleep_balance", "sleep_regularity",
           "temperature_deviation", "temperature_trend_deviation", "timestamp"}
      [] name = "daily_stress" ->
           {"stress_high", "recovery_high", "day_summary"}
      [] name = "daily_spo2" ->
           {"spo2_percentage", "breathing_disturbance_index"}
      [] name = "sleep" ->
           {"average_breath", "average_heart_rate", "average_hrv", "efficiency",
           "heart_rate", "hrv", "sleep_phase_5_min"}
      [] name = "sleep_time" ->
           {"optimal_bedtime", "recommendation", "status"}
      [] name = "heartrate" ->
           {"bpm", "source"}
      [] name = "workout" ->
           {"activity", "calories", "distance", "intensity", "label"}
      [] name = "session" ->
           {"type", "mood", "heart_rate", "hrv", "motion_count"}
      [] name = "enhanced_tag" ->
           {"tag_type_code", "comment"}
      [] name = "rest_mode_period" ->
           {"end_day", "end_time", "episodes"}

\* the column of ON CONFLICT (...)
CONFLICT_TARGET(name) == IF name = "heartrate" THEN "timestamp" ELSE "id"

\* the revisions of a record the vendor may return for one key
REVISIONS == {"v1", "v2"}

\* the fields of a record's nested contributors object that the upsert copies
\* into columns of their own
CONTRIBUTORS(name) ==
    CASE name = "daily_activity" ->
           {"stay_active", "move_every_hour", "meet_daily_targets",
            "training_frequency", "training_volume", "recovery_time"}
      [] name = "daily_sleep" ->
           {"deep_sleep", "efficiency", "latency", "rem_sleep", "restfulness",
            "timing", "total_sleep"}
      [] name = "daily_readiness" ->
           {"activity_balance", "body_temperature", "hrv_balance",
            "previous_day_activity", "previous_night", "recovery_index",
            "resting_heart_rate", "sleep_balance", "sleep_regularity"}
      [] OTHER -> {}

\* the columns of the endpoint's table: those the INSERT names and, for the
\* three endpoints with contributors, the contributors JSONB column
TABLE_COLUMNS(name) ==
    INSERT_COLUMNS(name)
    \cup (IF CONTRIBUTORS(name) # {} THEN {"contributors"} ELSE {})

\* a record of the endpoint as the vendor returns it: its key, one revision's
\* value in every other field, and the nested contributors object
Record(name, key, v) ==
    [c \in TABLE_COLUMNS(name) \ CONTRIBUTORS(name) |->
        IF c = CONFLICT_TARGET(name) THEN key
        ELSE IF c = "contributors" THEN Some([f \in CONTRIBUTORS(name) |-> v])
        ELSE v]

\* params = {**record, "<field>": contributors.get("<field>"), ...}: the values
\* bound to the statement's placeholders
Params(name, record) ==
    [c \in INSERT_COLUMNS(name) |->
        IF c \in CONTRIBUTORS(name) THEN The(record.contributors)[c] ELSE record[c]]

\* cur.execute(sql, params): INSERT ... ON CONFLICT (key) DO UPDATE SET ...
\* A table row is <<endpoint, columns>>; a column the INSERT does not name
\* takes its default, NULL.
execute_upsert(table, name, record) ==
    LET key == CONFLICT_TARGET(name)
        params == Params(name, record)
        hit == { row \in table : row[1] = name /\ row[2][key] = params[key] }
    IN  IF hit = {}
        THEN table \cup {<<name, [c \in TABLE_COLUMNS(name) |->
                                    IF c \in INSERT_COLUMNS(name) THEN params[c]
                                    ELSE None]>>}
        ELSE (table \ hit) \cup
             { <<name, [c \in DOMAIN row[2] |->
                           IF c \in CONFLICT_UPDATES(name) THEN params[c]
                           ELSE row[2][c]]>> : row \in hit }

RECURSIVE execute_all(_, _, _)
\* for record in records: cur.execute(sql, params)
execute_all(table, name, records) ==
    IF records = <<>> THEN table
    ELSE execute_all(execute_upsert(table, name, Head(records)), name, Tail(records))

\* upsert_<endpoint>(conn, records) on a healthy idle connection: the table
\* after the commit and the value returned
upsert_records(table, name, records) ==
    IF name # "personal_info" /\ records = <<>>
    THEN [rows |-> table, count |-> 0]
    ELSE [rows |-> execute_all(table, name, records), count |-> Len(records)]

\* the batches handed to an endpoint's upsert; personal_info takes one record
Batches(name) ==
    { <<Record(name, "k1", v)>> : v \in REVISIONS }
    \cup (IF name = "personal_info" THEN {}
          ELSE {<<>>, <<Record(name, "k1", "v1"), Record(name, "k2", "v1")>>})

InitUpsert ==
    /\ InitTokens({[access_token |-> "", refresh_token |-> ""]}, {})
    /\ backend = "database"
    /\ handler = HandlerInit
    /\ attempt = AttemptIdle
    /\ run = RunIdle
    /\ pg = {}

\* one call of an endpoint's upsert; run.attempted lists the calls made
UpsertBatch ==
    /\ Len(run.attempted) < MaxUpserts
    /\ \E i \in 1..Len(ENDPOINTS) :
       \E records \in Batches(ENDPOINTS[i]) :
           LET u == upsert_records(pg, ENDPOINTS[i], records)
           IN  /\ pg' = u.rows
               /\ run' = [run EXCEPT !.attempted = Append(@, ENDPOINTS[i])]
               /\ result' = [NoResult EXCEPT
                                !.op = "upsert",
                                !.arg = Some([endpoint |-> ENDPOINTS[i],
                                              records |-> records]),
                                !.value = Some(u.count),
                                !.changed = u.rows # pg]
    /\ UNCHANGED <<sessions, settings, backend, tokenFile, dbRow, now, cache, vendor, posts,
                   faults, held, handler, attempt>>

NextUpsert == UpsertBatch

SpecUpsert == InitUpsert /\ [][NextUpsert]_vars

-----------------------------------------------------------------------------
(* Specification SpecTwoRuns: two scrape runs sharing one token store *)

\* the world as run i's OuraAuth sees it: the shared store and vendor, its own
\* self._tokens
SessionWorld(i) == [World EXCEPT !.cache = sessions[i].cache]

\* the shared part of the world after an outcome of run i, and the call's record
ApplyShared(o, old) ==
    /\ tokenFile' = o.w.tokenFile
    /\ dbRow' = o.w.dbRow
    /\ held' = o.w.held
    /\ vendor' = o.w.vendor
    /\ posts' = o.w.posts
    /\ faults' = o.w.faults
    /\ result' = [NoResult EXCEPT !.op = "get_valid_token",
                                  !.raised = o.raised,
                                  !.value = o.value,
                                  !.trace = o.w.trace,
                                  !.changed = o.w.dbRow # dbRow \/ o.w.cache # old,
                                  !.faulted = o.w.faults > faults]

\* the runs use DatabaseTokenStorage and the environment supplies no tokens;
\* the row holds the pair of an earlier authorization, one second short of its
\* expiry buffer
InitTwoRuns ==
    /\ settings = [access_token |-> "", refresh_token |-> ""]
    /\ backend = "database"
    /\ tokenFile = None
    /\ held = Some(OAuthTokens("A0", "R0", BUFFER_SECONDS + 1, "bearer"))
    /\ dbRow = Some(<<The(held).access_token, The(held).refresh_token,
                      The(held).expires_at, The(held).token_type>>)
    /\ now = 0
    /\ cache = None
    /\ vendor = [issued |-> 0, valid |-> {"R0"}, codes |-> {}]
    /\ posts = [count |-> 0, rotated |-> {}]
    /\ faults = 0
    /\ result = NoResult
    /\ sessions = [i \in SESSIONS |-> SessionIdle]
    /\ handler = HandlerInit
    /\ attempt = AttemptIdle
    /\ run = RunIdle
    /\ pg = {}

\* get_valid_token of run i up to the expiry test of the loaded pair (lines
\* 419-425): the cached pair, or storage.load()
RunLoad(i) ==
    /\ sessions[i].pc = "idle"
    /\ LET w == SessionWorld(i)
       IN  IF w.cache # None /\ ~is_expired(The(w.cache), now)
           THEN /\ sessions' = [sessions EXCEPT ![i].pc = "returned"]
                /\ ApplyShared(Outcome(w, "none", w.cache), w.cache)
           ELSE \E l \in load(w) :
                  /\ ApplyShared(IF l.raised = "none" /\ l.value = None
                                 THEN Outcome(l.w, "ValueError", None) ELSE l,
                                 w.cache)
                  /\ sessions' =
                        [sessions EXCEPT ![i] =
                           IF l.raised # "none" \/ l.value = None
                           THEN [@ EXCEPT !.pc = "raised"]
                           ELSE IF is_expired(The(l.value), now)
                                THEN [@ EXCEPT !.pc = "refreshing",
                                               !.loaded = l.value]
                           ELSE [@ EXCEPT !.pc = "returned", !.loaded = l.value,
                                          !.cache = l.value]]
    /\ UNCHANGED <<settings, backend, now, cache, handler, attempt, run, pg>>

\* the status of the token request in a trace, 0 when none was sent
PostStatus(trace) ==
    LET p == { k \in 1..Len(trace) : trace[k].ev = "post" }
    IN  IF p = {} THEN 0 ELSE trace[CHOOSE k \in p : \A m \in p : m <= k].status

\* the refresh token posted in a trace, {} when none was sent
PostCredential(trace) ==
    LET p == { k \in 1..Len(trace) : trace[k].ev = "post" }
    IN  IF p = {} THEN None
        ELSE Some(trace[CHOOSE k \in p : \A m \in p : m <= k].credential)

\* get_valid_token of run i from line 426: refresh_tokens with the loaded pair's
\* refresh token, then self._tokens = tokens
RunRefresh(i) ==
    /\ sessions[i].pc = "refreshing"
    /\ \E r \in refresh_tokens(SessionWorld(i),
                                Some(The(sessions[i].loaded).refresh_token)) :
           /\ ApplyShared(r, sessions[i].cache)
           /\ sessions' =
                 [sessions EXCEPT ![i] =
                    [@ EXCEPT !.pc = IF r.raised # "none" THEN "raised" ELSE "returned",
                              !.cache = r.w.cache,
                              !.sent = PostCredential(r.w.trace),
                              !.status = PostStatus(r.w.trace)]]
    /\ UNCHANGED <<settings, backend, now, cache, handler, attempt, run, pg>>

\* run i ends and a later run starts as a new process
RunEnd(i) ==
    /\ sessions[i].pc \in {"returned", "raised"}
    /\ sessions' = [sessions EXCEPT ![i] = SessionIdle]
    /\ result' = NoResult
    /\ UNCHANGED <<settings, backend, tokenFile, dbRow, now, cache, vendor, posts,
                   faults, held, handler, attempt, run, pg>>

NextTwoRuns ==
    \/ Tick
    \/ \E i \in SESSIONS : RunLoad(i)
    \/ \E i \in SESSIONS : RunRefresh(i)
    \/ \E i \in SESSIONS : RunEnd(i)

SpecTwoRuns == InitTwoRuns /\ [][NextTwoRuns]_vars

-----------------------------------------------------------------------------
(* Specification SpecStore: a token store backend used on its own *)

\* the pairs handed to save()
SamplePairs ==
    { OAuthTokens("A1", "R1", e, t)
      : e \in {0, SECONDS_PER_DAY - 1, SECONDS_PER_DAY, 2 * SECONDS_PER_DAY + 5},
        t \in {"bearer", "Bearer", ""} }

InitStore ==
    /\ InitTokens(SettingsChoices, CorruptContents)
    /\ handler = HandlerInit
    /\ attempt = AttemptIdle
    /\ run = RunIdle
    /\ pg = {}

StoreSave ==
    \E tokens \in SamplePairs :
        \E o \in save(World, tokens) :
            /\ Apply(o, "save", Some(tokens), "")
            /\ UNCHANGED <<sessions, settings, backend, now, handler, attempt, run, pg>>

\* load(); its record's arg is the pair of the save() that came right before
\* it and returned, {} when the call before was anything else
StoreLoad ==
    \E o \in load(World) :
        /\ Apply(o, "load",
                 IF result.op = "save" /\ result.raised = "none" THEN result.arg ELSE None,
                 "")
        /\ UNCHANGED <<sessions, settings, backend, now, handler, attempt, run, pg>>

StoreClear ==
    \E o \in clear(World) :
        /\ Apply(o, "clear", None, "")
        /\ UNCHANGED <<sessions, settings, backend, now, handler, attempt, run, pg>>

NextStore ==
    \/ StoreSave
    \/ StoreLoad
    \/ StoreClear
    \/ Tick

SpecStore == InitStore /\ [][NextStore]_vars

-----------------------------------------------------------------------------
(* Claims about the token store (SpecStore) *)

\* C7: when the environment supplies both an access token and a refresh token,
\* load() of either backend returns a pair built from them whatever the backend
\* holds; when either one is missing, load() returns the backend's durable pair
\* if there is one, and absent otherwise.
C7_EnvThenBackendThenAbsent ==
    result.op = "load" =>
        /\ result.raised = "none"
        /\ IF settings.access_token # "" /\ settings.refresh_token # ""
           THEN /\ result.value # None
                /\ The(result.value).access_token = settings.access_token
                /\ The(result.value).refresh_token = settings.refresh_token
           ELSE result.value = held

\* C8 as stated: for every pair T and both backends, save(T) followed by load()
\* returns a pair equal to T in all four fields.
C8_RoundTripAlways ==
    (result.op = "load" /\ result.arg # None) =>
        (result.raised = "none" /\ result.value = result.arg)

\* C8 amended: when the environment does not supply both tokens, save(T)
\* followed by load() returns a pair equal to T in all four fields for the file
\* backend, and for the database backend when the load reaches the database and
\* T.token_type is not empty.
C8_RoundTripWithoutEnv ==
    ( /\ result.op = "load"
      /\ result.arg # None
      /\ ~ (settings.access_token # "" /\ settings.refresh_token # "")
      /\ backend = "database" => (~result.faulted /\ The(result.arg).token_type # "") )
    => (result.raised = "none" /\ result.value = result.arg)

\* C8 witness: a pair with a time of day in its expiry came back from the file
C8_Witness ==
    /\ result.op = "load"
    /\ backend = "file"
    /\ result.arg # None
    /\ result.value = result.arg
    /\ The(result.arg).expires_at = 2 * SECONDS_PER_DAY + 5
    /\ The(result.arg).token_type = ""

ContainsPair(file) == from_dict(file.content).raised = "none"

\* C15: in every reachable state of the file backend, the state left when
\* save() is interrupted between its steps included, a token file that contains
\* a token pair is readable by its owner only (mode 0600).
C15_TokenFileOwnerOnly ==
    (backend = "file" /\ tokenFile # None /\ The(tokenFile).content.kind = "object"
        /\ ContainsPair(The(tokenFile)))
    => The(tokenFile).mode = "0600"

-----------------------------------------------------------------------------
(* Claims about the session manager (Spec) *)

\* the events of one kind in the record of the last call
Events(kind) == { i \in 1..Len(result.trace) : result.trace[i].ev = kind }

\* the refresh token in the durable copy, read straight from the backend
PersistedRefresh ==
    IF backend = "file"
    THEN IF tokenFile = None THEN None
         ELSE Some(The(tokenFile).content.obj.refresh_token)
    ELSE IF dbRow = None THEN None ELSE Some(The(dbRow)[2])

\* C4: after refresh_tokens succeeds with refresh token R, the persisted pair
\* holds the refresh token of the vendor's response (different from R), and no
\* later refresh_tokens() or get_valid_token() call sends R to the vendor again.
C4_RotatedTokenNeverResent ==
    /\ (result.op = "refresh_tokens" /\ result.raised = "none") =>
          /\ PersistedRefresh = Some(The(result.value).refresh_token)
          /\ \A i \in Events("post") :
                 result.trace[i].credential # The(result.value).refresh_token
    /\ ( /\ result.op \in {"refresh_tokens", "get_valid_token"}
         /\ result.arg = None ) => ~result.reused

\* C5: every access token returned by get_valid_token belongs to a pair that is
\* not expired under the 5-minute-buffer rule at the moment of return.
C5_ReturnedTokenNotExpired ==
    (result.op = "get_valid_token" /\ result.raised = "none") =>
        /\ result.value # None
        /\ now < The(result.value).expires_at - BUFFER_SECONDS

\* C9: refresh_tokens sends the explicitly supplied refresh token when one is
\* given, otherwise the refresh token of the pair load() returned; when none is
\* supplied and load() returns absent it fails before any request is sent.
C9_RefreshSendsGivenOrStored ==
    result.op = "refresh_tokens" =>
        IF result.arg # None
        THEN /\ Events("load") = {}
             /\ Cardinality(Events("post")) = 1
             /\ \A i \in Events("post") :
                    /\ result.trace[i].grant = "refresh_token"
                    /\ result.trace[i].credential = The(result.arg)
        ELSE /\ Events("load") = {1}
             /\ IF result.trace[1].raised = "none" /\ result.trace[1].value # None
                THEN /\ Events("post") = {2}
                     /\ result.trace[2].grant = "refresh_token"
                     /\ result.trace[2].credential =
                            The(result.trace[1].value).refresh_token
                ELSE /\ Events("post") = {}
                     /\ result.raised # "none"

\* C9 witness: refresh_tokens() called without an argument has loaded a pair the
\* vendor issued earlier, sent that pair's refresh token and succeeded
C9_Witness ==
    /\ result.op = "refresh_tokens"
    /\ result.arg = None
    /\ Events("post") = {2}
    /\ result.trace[2].credential = REFRESH[1]
    /\ result.raised = "none"

\* C10: when the vendor answers with a non-2xx status, exchange_code and
\* refresh_tokens fail with an error raised to the caller, make no second
\* request, and leave the durable token copy and the in-memory cache unchanged.
C10_RefusalChangesNothing ==
    ( /\ result.op \in {"exchange_code", "refresh_tokens"}
      /\ \E i \in Events("post") : result.trace[i].status # 200 )
    => /\ result.raised = "HTTPStatusError"
       /\ Cardinality(Events("post")) = 1
       /\ Events("save") = {}
       /\ ~result.changed

\* C10 witness: a refused refresh while a pair was cached and stored
C10_Witness ==
    /\ result.op = "refresh_tokens"
    /\ result.raised = "HTTPStatusError"
    /\ cache # None
    /\ held # None

\* C11: get_valid_token fails with the 'no tokens available' error, without
\* sending any request to the vendor and without changing anything, whenever the
\* cache holds no unexpired pair (so that load() is called) and load() returns
\* absent.
C11_NoTokensNoRequest ==
    ( /\ result.op = "get_valid_token"
      /\ Events("load") # {}
      /\ result.trace[1].raised = "none"
      /\ result.trace[1].value = None )
    => /\ result.raised = "ValueError"
       /\ result.value = None
       /\ Len(result.trace) = 1
       /\ Events("post") = {}
       /\ ~result.changed

\* C11 witness: the cache holds an expired pair, the store has been cleared, and
\* get_valid_token has failed after its load()
C11_Witness ==
    /\ result.op = "get_valid_token"
    /\ result.raised = "ValueError"
    /\ Events("load") = {1}
    /\ result.trace[1].value = None
    /\ cache # None
    /\ held = None

\* C12: for every token pair T and every instant now, is_expired(T) is true
\* exactly when now >= expires_at(T) - 5 minutes, the boundary instant included;
\* get_valid_token applies this test to the cached pair (it returns the cached
\* pair without loading exactly when that pair is not expired) and to the loaded
\* pair (it refreshes exactly when that pair is expired).
C12_BufferRuleAtEveryCheck ==
    /\ [](\A T \in cache \cup held :
              is_expired(T, now) <=> now >= T.expires_at - 300)
    /\ [][ result'.op = "get_valid_token" =>
             LET tr == result'.trace
             IN  /\ (tr = <<>>) <=> (cache # None /\ now < The(cache).expires_at - 300)
                 /\ (tr # <<>> /\ tr[1].raised = "none" /\ tr[1].value # None) =>
                        ( (\E i \in 1..Len(tr) : tr[i].ev = "post")
                          <=> now >= The(tr[1].value).expires_at - 300 ) ]_vars

\* C12 witness: get_valid_token loaded a pair exactly at its boundary instant,
\* one second after it was still good, and refreshed it
C12_Witness ==
    /\ result.op = "get_valid_token"
    /\ now >= 1
    /\ Events("load") = {1}
    /\ result.trace[1].value # None
    /\ now = The(result.trace[1].value).expires_at - 300
    /\ Events("post") # {}

\* C14: for the database backend with no environment override, load() returns
\* absent and does not raise when the database cannot be reached or the query
\* fails; get_valid_token then reports 'no tokens available', not a storage
\* error.
C14_UnreachableDatabaseIsNoTokens ==
    ( /\ result.op = "get_valid_token"
      /\ backend = "database"
      /\ ~ (settings.access_token # "" /\ settings.refresh_token # "")
      /\ result.faulted
      /\ Len(result.trace) = 1 )
    => /\ result.trace[1].ev = "load"
       /\ result.trace[1].raised = "none"
       /\ result.trace[1].value = None
       /\ result.raised = "ValueError"

\* C14 witness: the row exists, the database could not be reached, and
\* get_valid_token reported that there are no tokens
C14_Witness ==
    /\ result.op = "get_valid_token"
    /\ backend = "database"
    /\ result.faulted
    /\ Len(result.trace) = 1
    /\ dbRow # None
    /\ result.raised = "ValueError"

\* the pair in the durable copy, read straight from the backend
DurablePair ==
    IF backend = "file"
    THEN IF tokenFile = None THEN None ELSE from_dict(The(tokenFile).content).value
    ELSE IF dbRow = None THEN None
         ELSE Some(OAuthTokens(The(dbRow)[1], The(dbRow)[2], The(dbRow)[3], The(dbRow)[4]))

\* C21: after a successful exchange_code or refresh_tokens, the durable copy in
\* the token store and the in-memory cache both equal the pair returned to the
\* caller, in all four fields.
C21_StoreAndCacheHoldReturnedPair ==
    (result.op \in {"exchange_code", "refresh_tokens"} /\ result.raised = "none") =>
        /\ result.value # None
        /\ cache = result.value
        /\ DurablePair = result.value

\* C21 witness: a refresh replaced a stored pair in the token file by a pair
\* whose token_type is not the default
C21_Witness ==
    /\ result.op = "refresh_tokens"
    /\ result.raised = "none"
    /\ backend = "file"
    /\ vendor.issued = 2
    /\ The(result.value).token_type = "Bearer"
    /\ DurablePair = result.value

\* C27: in exchange_code and refresh_tokens the cache is assigned only after
\* save() has returned; when save() raises after the vendor accepted the grant,
\* the error reaches the caller, the cache and the durable copy keep their
\* previous values, and the pair just issued is held nowhere.
C27_FailedSaveChangesNothing ==
    ( /\ result.op \in {"exchange_code", "refresh_tokens"}
      /\ \E i \in Events("save") : result.trace[i].raised # "none" )
    => /\ result.raised # "none"
       /\ ~result.changed
       /\ \A i \in Events("save") :
              /\ cache # Some(result.trace[i].tokens)
              /\ DurablePair # Some(result.trace[i].tokens)

\* C30: while the environment supplies both tokens, get_valid_token never sends
\* a refresh request: each load() yields a pair whose expiry is one year after
\* the load, so whenever the cache is empty or expired the call returns the
\* environment's access token, also after a refresh_tokens call saved a newer
\* pair into the backend.
C30_EnvPairNeverRefreshed ==
    ( /\ result.op = "get_valid_token"
      /\ settings.access_token # "" /\ settings.refresh_token # "" )
    => /\ Events("post") = {}
       /\ result.raised = "none"
       /\ Events("load") # {} =>
             /\ The(result.value).access_token = settings.access_token
             /\ The(result.value).expires_at = now + 365 * 86400
             /\ cache = result.value

\* C30 witness: the backend holds a newer pair saved by a refresh, the cache
\* was not usable, and get_valid_token returned the environment's token
C30_Witness ==
    /\ result.op = "get_valid_token"
    /\ settings.access_token = "EA"
    /\ Events("load") = {1}
    /\ held # None
    /\ The(held).access_token # "EA"
    /\ The(result.value).access_token = "EA"

-----------------------------------------------------------------------------
(* Claims about overlapping scrape runs (SpecTwoRuns) *)

\* C26: with two scrape runs (two session managers) sharing one token store
\* and no mutual exclusion, both can load the same expired pair and both send
\* its refresh token to the vendor, so that one of the two refreshes is
\* rejected: every run posts the refresh token of the pair it loaded, whatever
\* the store holds by then, and of two runs that posted the same refresh token
\* at most one was granted a new pair.
C26_SameRefreshTokenSentTwice ==
    /\ \A i \in SESSIONS :
           sessions[i].sent # None =>
               /\ sessions[i].loaded # None
               /\ sessions[i].sent = Some(The(sessions[i].loaded).refresh_token)
    /\ \A i, j \in SESSIONS :
           (i # j /\ sessions[i].sent # None /\ sessions[i].sent = sessions[j].sent)
               => ~(sessions[i].status = 200 /\ sessions[j].status = 200)

\* C26 witness: both runs loaded the same expired pair and posted its refresh
\* token; the vendor granted one request and rejected the other, whose run
\* failed
C26_Witness ==
    \E i, j \in SESSIONS :
        /\ i # j
        /\ sessions[i].loaded # None
        /\ sessions[i].loaded = sessions[j].loaded
        /\ sessions[i].sent = Some(The(sessions[i].loaded).refresh_token)
        /\ sessions[j].sent = sessions[i].sent
        /\ sessions[i].status = 200 /\ sessions[i].pc = "returned"
        /\ sessions[j].status = 400 /\ sessions[j].pc = "raised"

-----------------------------------------------------------------------------
(* Claims about authorize_interactive (SpecInteractive) *)

Malformed(params) == params.error = None /\ params.code = None

\* C16: authorize_interactive fails without calling exchange_code when a
\* callback carries an error parameter (also when a code parameter is present in
\* the same request) and when no callback carrying a code has arrived by the
\* time the wait ends.
C16_DenialAndTimeoutFail ==
    ( /\ result.op = "authorize_interactive"
      /\ \/ \E i \in 1..attempt.seen : attempt.queries[i].q.error # None
         \/ \A i \in 1..attempt.seen : attempt.queries[i].q.code = None )
    => /\ result.raised # "none"
       /\ result.trace = <<>>
       /\ ~result.changed

\* C16 witness: the callback carried an error together with a code and this
\* attempt's state, and the attempt failed as denied
C16_Witness ==
    /\ result.op = "authorize_interactive"
    /\ result.note = "denied"
    /\ result.raised = "ValueError"
    /\ \E i \in 1..attempt.seen :
           /\ attempt.queries[i].q.error # None
           /\ attempt.queries[i].q.code = Some("code1")
           /\ attempt.queries[i].q.state = Some(attempt.expected_state)

\* C17: a callback request with neither a code nor an error parameter is
\* answered with status 400 and leaves authorization_code, state and error of
\* the receiver unchanged: all absent when nothing else arrived since the reset
\* that starts the attempt.
C17_MalformedCallbackCapturesNothing ==
    /\ [](\A i \in 1..Len(attempt.queries) :
              Malformed(attempt.queries[i].q) => attempt.queries[i].status = 400)
    /\ []((\A i \in 1..Len(attempt.queries) : Malformed(attempt.queries[i].q))
              => handler = [authorization_code |-> {}, state |-> {}, error |-> {}])
    /\ [][ ( /\ Len(attempt'.queries) = Len(attempt.queries) + 1
             /\ Malformed(attempt'.queries[Len(attempt'.queries)].q) )
           => handler' = handler ]_vars

\* C17 witness: the one request of the attempt carried a state but neither a
\* code nor an error; it was answered with 400 and nothing was captured
C17_Witness ==
    /\ attempt.thread = "done"
    /\ Len(attempt.queries) = 1
    /\ Malformed(attempt.queries[1].q)
    /\ attempt.queries[1].q.state # None
    /\ attempt.queries[1].status = 400
    /\ handler.state = None

\* C18: on every exit path of authorize_interactive (success, denial, state
\* mismatch, timeout, and an exception raised while opening the browser or
\* waiting) the callback listener is closed once the call has returned or
\* raised.
C18_ListenerClosedOnExit ==
    attempt.pc \in {"idle", "raised"} => attempt.listener = "closed"

\* what the class attributes hold after the requests of `queries` that this
\* attempt's own receiver handled, starting from the reset
RECURSIVE OwnCapture(_, _)
OwnCapture(h, queries) ==
    IF queries = <<>> THEN h
    ELSE OwnCapture(IF Head(queries).stale THEN h ELSE do_GET(h, Head(queries).q),
                    Tail(queries))

\* C22: the callback receiver handles at most one inbound request per
\* authorization attempt: after the first request (success, denial or
\* malformed) no later request changes the captured code, state or error.
C22_OneRequestPerAttempt ==
    /\ [](attempt.pc \in {"waiting", "exchanging"} => Len(attempt.queries) <= 1)
    /\ [][ ( /\ Len(attempt.queries) >= 1
             /\ Len(attempt'.queries) = Len(attempt.queries) + 1 )
           => handler' = handler ]_vars

\* C29: the code, state and error that authorize_interactive acts on were
\* captured by a request handled during that same attempt: the capture fields
\* are reset at the start of each attempt, and the receiver thread of an
\* earlier attempt that timed out cannot write them during a later attempt.
C29_CaptureBelongsToAttempt ==
    /\ attempt.pc \in {"waiting", "exchanging"} =>
           \A i \in 1..Len(attempt.queries) : ~attempt.queries[i].stale
    /\ (result.op = "authorize_interactive"
            /\ result.note \notin {"browser", "interrupted"}) =>
           /\ attempt.checked = OwnCapture(HandlerInit, attempt.queries)
           /\ result.note = "exchange" =>
                  result.arg = OwnCapture(HandlerInit, attempt.queries).authorization_code

-----------------------------------------------------------------------------
(* Claims about the scrape run (SpecScrape) *)

\* the endpoints of the fixed list, as a set
EndpointNames == { ENDPOINTS[i] : i \in 1..Len(ENDPOINTS) }

\* C1: in every run of scrape_all, whichever endpoints fail in their own fetch
\* or store step, every other endpoint is reported with success = true and its
\* fetched records are in storage when the run ends; a failure in the store step
\* of one endpoint does not make a later endpoint fail.
C1_FailuresAreIsolated ==
    run.pc = "returned" =>
        \A name \in EndpointNames \ run.own :
            /\ name \in DOMAIN run.stats
            /\ run.stats[name].success
            /\ { row \in run.fetched : row[1] = name } \subseteq pg

\* C2: in every run of scrape_all the sequence of endpoints attempted is exactly
\* the fixed list, each attempted once and in that order, whichever of them fail.
C2_AttemptsFixedListInOrder ==
    /\ Len(run.attempted) <= Len(ENDPOINTS)
    /\ \A i \in 1..Len(run.attempted) : run.attempted[i] = ENDPOINTS[i]
    /\ run.pc \in {"returned", "raised"} => run.attempted = ENDPOINTS

\* C3: scrape_all never raises; it completes and returns a report with exactly
\* one entry for each endpoint of the fixed list, each entry either success with
\* a record count or failure with an error message.
C3_NeverRaisesFullReport ==
    /\ run.pc # "raised"
    /\ run.pc = "returned" =>
          /\ DOMAIN run.stats = EndpointNames
          /\ \A name \in EndpointNames :
                 IF run.stats[name].success
                 THEN DOMAIN run.stats[name] = {"success", "records"}
                 ELSE DOMAIN run.stats[name] = {"success", "error"}

\* C23: every API access method calls get_valid_token exactly once per
\* invocation, before its HTTP GET, and keeps no token between invocations (the
\* GET carries the token that call returned); when get_valid_token fails, no
\* GET is sent.
C23_TokenFetchedOncePerCall ==
    result.op = "_scrape_" =>
        /\ Cardinality(Events("get_valid_token")) = 1
        /\ \A t \in Events("get_valid_token") :
               /\ result.trace[t].raised # "none" => Events("get") = {}
               /\ \A g \in Events("get") :
                      /\ t < g
                      /\ result.trace[g].token = The(result.trace[t].value).access_token

\* C23 witness: a later endpoint of the run, fetched with the token its own
\* get_valid_token call returned while the session manager had a pair cached
C23_Witness ==
    /\ result.op = "_scrape_"
    /\ Len(run.attempted) >= 2
    /\ cache # None
    /\ \E g \in Events("get") : \E t \in Events("get_valid_token") :
           /\ t < g
           /\ result.trace[g].token = The(cache).access_token

\* C24: no operation retries: one API access call sends at most one GET and
\* fails on a non-2xx response (401 included) without starting a refresh or a
\* reauthorization, and one get_valid_token call sends at most one refresh
\* request.
C24_NoRetry ==
    result.op = "_scrape_" =>
        /\ Cardinality(Events("get")) <= 1
        /\ Cardinality(Events("post")) <= 1
        /\ \A g \in Events("get") :
               /\ \A p \in Events("post") : p < g
               /\ result.trace[g].status # 200 =>
                      /\ g = Len(result.trace)
                      /\ result.raised = "HTTPStatusError"
                      /\ ~run.stats[The(result.arg)].success

\* C24 witness: a GET answered with 401 ended the call; nothing was sent after it
C24_Witness ==
    /\ result.op = "_scrape_"
    /\ result.raised = "HTTPStatusError"
    /\ \E g \in Events("get") : result.trace[g].status = 401
    /\ Events("post") = {}

\* C28: when a scrape run ends, an endpoint reported with success = false has
\* none of the records of its fetched batch in storage: a batch whose upsert
\* fails part-way is never partly committed, neither by the end of the run nor
\* by the commit of a later endpoint on the shared connection.
C28_FailedBatchNotCommitted ==
    run.pc = "returned" =>
        \A name \in DOMAIN run.stats :
            ~run.stats[name].success => { row \in pg : row[1] = name } = {}

-----------------------------------------------------------------------------
(* Claims about the upsert operations (SpecUpsert, SpecScrape) *)

\* C19: upserting a record again through an endpoint's upsert leaves exactly
\* one stored row for its key, and every non-key field of that row holds the
\* value of the second call; for every endpoint's upsert.
C19_SecondUpsertOverwrites ==
    (result.op = "upsert" /\ The(result.arg).records # <<>>) =>
        LET name == The(result.arg).endpoint
            records == The(result.arg).records
            key == CONFLICT_TARGET(name)
        IN  \A i \in 1..Len(records) :
                LET stored == { row \in pg : /\ row[1] = name
                                            /\ row[2][key] = records[i][key] }
                    params == Params(name, records[i])
                IN  /\ Cardinality(stored) = 1
                    /\ \A row \in stored :
                           \A c \in INSERT_COLUMNS(name) : row[2][c] = params[c]

\* C25: for daily_activity, daily_sleep and daily_readiness, every upsert,
\* insert and update-on-conflict alike, writes both the full contributors
\* object and the flattened fields from the same incoming record, so the stored
\* object and the stored flattened fields agree after any sequence of upserts.
C25_BlobAndFlattenedAgree ==
    ( /\ result.op = "upsert"
      /\ CONTRIBUTORS(The(result.arg).endpoint) # {}
      /\ The(result.arg).records # <<>> ) =>
        LET name == The(result.arg).endpoint
            records == The(result.arg).records
        IN  \A i \in 1..Len(records) :
            \A row \in { r \in pg : r[1] = name /\ r[2].id = records[i].id } :
                /\ row[2].contributors = records[i].contributors
                /\ \A f \in CONTRIBUTORS(name) :
                       row[2][f] = The(row[2].contributors)[f]

\* C20: for every endpoint's batch upsert, an empty batch returns 0, executes no
\* statement and no commit (the connection's transaction is left as it was,
\* failed or open with its uncommitted rows), and leaves the storage unchanged.
C20_EmptyBatchIsNoOp ==
    [][ ( /\ run.pc = "running"
          /\ run'.idx = run.idx + 1
          /\ ENDPOINTS[run.idx] # "personal_info"
          /\ ENDPOINTS[run.idx] \in run.empty
          /\ \E i \in 1..Len(result'.trace) :
                 result'.trace[i].ev = "get" /\ result'.trace[i].status = 200 )
        => /\ pg' = pg
           /\ run'.conn = run.conn
           /\ run'.stats[ENDPOINTS[run.idx]] = [success |-> TRUE, records |-> 0] ]_vars

\* C20 witness: sleep_time came back empty while the connection was in a
\* failed transaction, and was reported as a success with 0 records
C20_Witness ==
    /\ run.pc = "running"
    /\ run.attempted # <<>>
    /\ run.attempted[Len(run.attempted)] = "sleep_time"
    /\ "sleep_time" \in run.empty
    /\ run.conn.tx = "INERROR"
    /\ run.stats["sleep_time"] = [success |-> TRUE, records |-> 0]
====
